---- MODULE Spec2Model ----
(***************************************************************************)
(* Model of the subtitle OCR pipeline of src/app/ocr_engine.py:            *)
(* build_items -> items_to_segments -> fill_gaps_upto -> write_ass, as     *)
(* sequenced by process_video_to_ass.                                      *)
(*                                                                         *)
(* Representation.                                                         *)
(*  - A time (Python float, seconds) is an integer number of milliseconds. *)
(*    Frame timestamps, hold_gap, fill_gaps and the segment times of the   *)
(*    pipeline specifications are multiples of 125 ms and sample_fps is a  *)
(*    power of two, so every float operation of the pipeline on them is    *)
(*    exact and integer arithmetic is the float arithmetic.  ass_time is   *)
(*    the one place that is given arbitrary millisecond values; there the  *)
(*    binary64 rounding is modelled explicitly (see double_err).           *)
(*  - change_threshold is held in percent (20 is 0.20).                    *)
(*  - A text is a sequence of one-character strings.                       *)
(*  - Optional[str] is a sequence of length 0 (None) or 1 (the string).    *)
(***************************************************************************)
EXTENDS Integers, Sequences, FiniteSets, TLC

VARIABLES
    pc,               \* position in process_video_to_ass
    sample_fps,       \* parameter sample_fps
    change_threshold, \* parameter change_threshold, in percent
    hold_gap,         \* parameter hold_gap, ms
    fill_gaps,        \* parameter fill_gaps, ms
    play_res,         \* <<w, h>> returned by get_video_info
    frame_files,      \* the sorted frame files, each with what reading it gives
    i,                \* number of frames build_items has consumed
    prev_text_sc,     \* build_items' prev_text_sc (Optional[str])
    items,            \* build_items' items list
    segments,         \* process_video_to_ass' segments list
    out_file,         \* the output document: <<>> (absent) or <<document>>
    keep_frames,      \* parameter keep_frames
    frames_dir,       \* the directory "_frames_tmp": <<>> (absent) or <<its files>>
    progress,         \* the calls of the caller's progress_cb, in call order
    error,            \* the exception process_video_to_ass raised, "" if none
    arg,              \* the argument of a function applied on its own
    ret,              \* and what it returned or raised
    runs,             \* the runs of process_video_to_ass that share a directory
    gui               \* the window of main.py: its buttons, threads and callbacks

vars == <<pc, sample_fps, change_threshold, hold_gap, fill_gaps, play_res,
          frame_files, i, prev_text_sc, items, segments, out_file,
          keep_frames, frames_dir, progress, error, arg, ret, runs, gui>>

params == <<sample_fps, change_threshold, hold_gap, fill_gaps, play_res, keep_frames>>

\* the state used only when a function is applied on its own, by two runs
\* or by the window
aside == <<arg, ret, runs, gui>>

\* no window
NoGui == <<>>

----------------------------------------------------------------------------
(* Bounds of the model *)

MaxFrames == 3
MaxItems == 3
MaxSegs == 2
TimeWindow == 12

----------------------------------------------------------------------------
(* Small arithmetic helpers *)

Max2(a, b) == IF a >= b THEN a ELSE b

Min2(a, b) == IF a <= b THEN a ELSE b

Abs(a) == IF a < 0 THEN -a ELSE a

RECURSIVE Pow2(_)
Pow2(n) == IF n <= 0 THEN 1 ELSE 2 * Pow2(n - 1)

----------------------------------------------------------------------------
(* Data models *)

Item(t, text_sc, text_tc, pos) ==
    [t |-> t, text_sc |-> text_sc, text_tc |-> text_tc, pos |-> pos]

Segment(start, end, text, pos) ==
    [start |-> start, end |-> end, text |-> text, pos |-> pos]

None == <<>>

Some(s) == <<s>>

\* Python truthiness of an Optional[str]: neither None nor "".
Truthy(opt) == Len(opt) = 1 /\ opt[1] # <<>>

----------------------------------------------------------------------------
(* Text: script conversion and edit distance *)

\* OpenCC("s2t").convert: the simplified character "a" is written as its
\* traditional form "A"; every other character is left as it is.
convert(s) == [k \in 1..Len(s) |-> IF s[k] = "a" THEN "A" ELSE s[k]]

\* rapidfuzz Levenshtein.distance with unit costs.
RECURSIVE distance(_, _)
distance(a, b) ==
    IF Len(a) = 0 THEN Len(b)
    ELSE IF Len(b) = 0 THEN Len(a)
    ELSE IF a[1] = b[1] THEN distance(Tail(a), Tail(b))
    ELSE 1 + Min2(distance(Tail(a), Tail(b)),
                  Min2(distance(Tail(a), b), distance(a, Tail(b))))

----------------------------------------------------------------------------
(* build_items: the body of the loop over the frame files, for one frame *)

\* Variants of the noise test: the distance compared without dividing by
\* maxlen, the comparison turned round, and less-or-equal for less-than.
is_noise_unnormalized(prev, text_sc, threshold) ==
    distance(prev, text_sc) * 100 < threshold

is_noise_inverted(prev, text_sc, threshold) ==
    LET maxlen == Max2(Max2(Len(prev), Len(text_sc)), 1)
    IN  distance(prev, text_sc) * 100 >= threshold * maxlen

is_noise_le(prev, text_sc, threshold) ==
    LET maxlen == Max2(Max2(Len(prev), Len(text_sc)), 1)
    IN  distance(prev, text_sc) * 100 <= threshold * maxlen

\* dist < change_threshold, with dist = distance / maxlen and the threshold
\* in percent.
is_noise(prev, text_sc, threshold) ==
    LET maxlen == Max2(Max2(Len(prev), Len(text_sc)), 1)
    IN  distance(prev, text_sc) * 100 < threshold * maxlen

\* Lines 253-268: the items list after a readable frame at time t that
\* reads (text_sc, pos).
items_after(its, prev, t, text_sc, pos, threshold) ==
    IF text_sc = <<>> THEN its
    ELSE IF Truthy(prev) /\ is_noise(prev[1], text_sc, threshold)
         THEN Append(its, Item(t, prev[1], convert(prev[1]), pos))
         ELSE Append(its, Item(t, text_sc, convert(text_sc), pos))

\* Variants: an empty reading leaves the previous text alone; a reading
\* taken for noise becomes the previous text.
prev_after_keeps_on_empty(prev, text_sc, threshold) ==
    IF text_sc = <<>> THEN prev
    ELSE IF Truthy(prev) /\ is_noise(prev[1], text_sc, threshold)
         THEN prev
         ELSE Some(text_sc)

prev_after_follows_reading(prev, text_sc, threshold) == Some(text_sc)

\* Lines 253-268: prev_text_sc after the same frame.
prev_after(prev, text_sc, threshold) ==
    IF text_sc = <<>> THEN Some(text_sc)
    ELSE IF Truthy(prev) /\ is_noise(prev[1], text_sc, threshold)
         THEN prev
         ELSE Some(text_sc)

----------------------------------------------------------------------------
(* items_to_segments *)

\* sorted() of a sequence of integers (insertion sort).
RECURSIVE insert_sorted(_, _)
insert_sorted(x, s) ==
    IF s = <<>> THEN <<x>>
    ELSE IF x < s[1] THEN <<x>> \o s
    ELSE <<s[1]>> \o insert_sorted(x, Tail(s))

RECURSIVE sorted_ints(_)
sorted_ints(s) ==
    IF s = <<>> THEN <<>>
    ELSE insert_sorted(s[Len(s)], sorted_ints(SubSeq(s, 1, Len(s) - 1)))

\* Variant: of an even number of positions the lower middle one is taken.
median_pos_lower(ps) ==
    LET xs == sorted_ints([k \in 1..Len(ps) |-> ps[k][1]])
        ys == sorted_ints([k \in 1..Len(ps) |-> ps[k][2]])
    IN  <<xs[((Len(xs) - 1) \div 2) + 1], ys[((Len(ys) - 1) \div 2) + 1]>>

median_pos(ps) ==
    LET xs == sorted_ints([k \in 1..Len(ps) |-> ps[k][1]])
        ys == sorted_ints([k \in 1..Len(ps) |-> ps[k][2]])
    IN  <<xs[(Len(xs) \div 2) + 1], ys[(Len(ys) \div 2) + 1]>>

\* Variant: strictly closer than the tolerance.
close_in_time_strict(t, last_t, fps) == (t - last_t) * fps < 1500

\* (it.t - last_t) <= (1.5 / sample_fps), times in ms; multiplying by a
\* negative sample_fps turns the comparison round.
close_in_time(t, last_t, fps) ==
    IF fps > 0 THEN (t - last_t) * fps <= 1500
    ELSE (t - last_t) * fps >= 1500

\* The loop of lines 293-307 over its[k..], with the state of the open
\* segment, and the final flush of line 309.
RECURSIVE segments_loop(_, _, _, _, _, _, _, _, _)
segments_loop(its, k, fps, hold, segs, cur_text, cur_start, pos_list, last_t) ==
    IF k > Len(its)
    THEN Append(segs, Segment(cur_start, last_t + hold, cur_text, median_pos(pos_list)))
    ELSE LET it == its[k]
             same == (it.text_tc = cur_text)
         IN  IF same /\ close_in_time(it.t, last_t, fps)
             THEN segments_loop(its, k + 1, fps, hold, segs, cur_text, cur_start,
                                Append(pos_list, it.pos), it.t)
             ELSE segments_loop(its, k + 1, fps, hold,
                                Append(segs, Segment(cur_start, last_t + hold, cur_text,
                                                     median_pos(pos_list))),
                                it.text_tc, it.t, <<it.pos>>, it.t)

\* Variant: the segments end at their last Item, hold_gap is not added.
items_to_segments_no_hold(its, fps, hold) ==
    IF its = <<>> THEN <<>>
    ELSE segments_loop(its, 2, fps, 0, <<>>, its[1].text_tc, its[1].t,
                       <<its[1].pos>>, its[1].t)

\* Variant: no Items give one segment without text.
items_to_segments_placeholder(its, fps, hold) ==
    IF its = <<>> THEN <<Segment(0, hold, <<>>, <<0, 0>>)>>
    ELSE segments_loop(its, 2, fps, hold, <<>>, its[1].text_tc, its[1].t,
                       <<its[1].pos>>, its[1].t)

items_to_segments(its, fps, hold) ==
    IF its = <<>> THEN <<>>
    ELSE segments_loop(its, 2, fps, hold, <<>>, its[1].text_tc, its[1].t,
                       <<its[1].pos>>, its[1].t)

----------------------------------------------------------------------------
(* fill_gaps_upto *)

\* sorted(segments, key=lambda s: s.start): stable.
RECURSIVE insert_by_start(_, _)
insert_by_start(x, s) ==
    IF s = <<>> THEN <<x>>
    ELSE IF x.start < s[Len(s)].start
         THEN Append(insert_by_start(x, SubSeq(s, 1, Len(s) - 1)), s[Len(s)])
         ELSE Append(s, x)

RECURSIVE sorted_by_start(_)
sorted_by_start(s) ==
    IF s = <<>> THEN <<>>
    ELSE insert_by_start(s[Len(s)], sorted_by_start(SubSeq(s, 1, Len(s) - 1)))

\* Variants: overlaps are cut but short gaps are not bridged; a short gap is
\* bridged by adding max_gap to the end.
filled_end_no_bridge(cur, next, max_gap) ==
    LET gap == next.start - cur.end
    IN  IF gap < 0 THEN next.start ELSE cur.end

filled_end_add_max(cur, next, max_gap) ==
    LET gap == next.start - cur.end
    IN  IF gap < 0 THEN next.start
        ELSE IF 0 < gap /\ gap <= max_gap THEN cur.end + max_gap
        ELSE cur.end

\* Variant: every gap is bridged, however long.
filled_end_any_gap(cur, next, max_gap) ==
    LET gap == next.start - cur.end
    IN  IF gap = 0 THEN cur.end ELSE next.start

\* Lines 318-322 for one index k (1-based) of the sorted list: the new end
\* of segment k.  Segment k+1 has not been modified when k is visited.
filled_end(cur, next, max_gap) ==
    LET gap == next.start - cur.end
    IN  IF gap < 0 THEN next.start
        ELSE IF 0 < gap /\ gap <= max_gap THEN next.start
        ELSE cur.end

fill_gaps_upto(segs, max_gap) ==
    IF segs = <<>> THEN <<>>
    ELSE LET s == sorted_by_start(segs)
         IN  [k \in 1..Len(s) |->
                IF k < Len(s)
                THEN [s[k] EXCEPT !.end = filled_end(s[k], s[k + 1], max_gap)]
                ELSE s[k]]

----------------------------------------------------------------------------
(* ass_time *)

\* The Python float a time of k ms is held in is the binary64 value nearest
\* to k/1000.  binexp(k) is its binary exponent: 2^q <= k/1000 < 2^(q+1).
RECURSIVE binexp_up(_, _)
binexp_up(k, q) == IF k >= 2000 * Pow2(q) THEN binexp_up(k, q + 1) ELSE q

RECURSIVE binexp_down(_, _)
binexp_down(k, q) == IF k * Pow2(-q) < 1000 THEN binexp_down(k, q - 1) ELSE q

binexp(k) == IF k >= 1000 THEN binexp_up(k, 0) ELSE binexp_down(k, 0)

RECURSIVE pow2mod1000(_)
pow2mod1000(p) == IF p <= 0 THEN 1 ELSE (2 * pow2mod1000(p - 1)) % 1000

RECURSIVE ilog2(_)
ilog2(n) == IF n < 2 THEN 0 ELSE 1 + ilog2(n \div 2)

\* double_err(k): the representation error of that float, float(k/1000) - k/1000,
\* in units of 2^(q-52)/1000 (k > 0).  The 53-bit significand is k * 2^(52-q) / 1000
\* rounded to nearest; r is the remainder of that division (never 500).
double_err(k) ==
    LET r == ((k % 1000) * pow2mod1000(52 - binexp(k))) % 1000
    IN  IF r < 500 THEN -r ELSE 1000 - r

\* int(round((t - int(t)) * 100)) for t = float(k/1000).
\* t - int(t) is exact, so it carries double_err(k); the product with 100 is
\* N + 0.5 + 100*err when the millisecond part ends in 5, and is rounded to
\* binary64 before round() (half to even) sees it.
round_cs(k) ==
    LET F == k % 1000
        N == F \div 10
    IN  IF F % 10 # 5 THEN (F + 5) \div 10
        ELSE LET se  == double_err(k)
                 j   == IF N = 0 THEN -1 ELSE ilog2(N)
                 g   == binexp(k) - j + 1
                 lim == IF N = 0 /\ se < 0 THEN 5 ELSE 10
                 \* is 100*|err| more than half an ulp of the product ?
                 big == IF g >= 0 THEN Abs(se) * Pow2(Min2(g, 6)) > lim
                        ELSE Abs(se) > lim * Pow2(-g)
             IN  IF ~big THEN (IF N % 2 = 0 THEN N ELSE N + 1)
                 ELSE IF se > 0 THEN N + 1 ELSE N

\* ass_time(t): the fields printed as f"{h}:{m:02d}:{s:02d}.{cs:02d}".
ass_time(k) ==
    LET h  == k \div 3600000
        m  == (k % 3600000) \div 60000
        s  == (k % 60000) \div 1000
        cs == round_cs(k)
    IN  IF cs = 100
        THEN IF s + 1 = 60
             THEN IF m + 1 = 60
                  THEN [h |-> h + 1, m |-> 0, s |-> 0, cs |-> 0]
                  ELSE [h |-> h, m |-> m + 1, s |-> 0, cs |-> 0]
             ELSE [h |-> h, m |-> m, s |-> s + 1, cs |-> 0]
        ELSE [h |-> h, m |-> m, s |-> s, cs |-> cs]

----------------------------------------------------------------------------
(* write_ass *)

IsSpace(c) == c = " " \/ c = "\n"

\* str.strip()
RECURSIVE lstrip(_)
lstrip(s) == IF s # <<>> /\ IsSpace(s[1]) THEN lstrip(Tail(s)) ELSE s

RECURSIVE rstrip(_)
rstrip(s) ==
    IF s # <<>> /\ IsSpace(s[Len(s)]) THEN rstrip(SubSeq(s, 1, Len(s) - 1)) ELSE s

strip(s) == rstrip(lstrip(s))

\* esc(): backslash, braces and newline
RECURSIVE esc(_)
esc(s) ==
    IF s = <<>> THEN <<>>
    ELSE LET c == s[1]
         IN  (IF c = "\\" THEN <<"\\", "\\">>
              ELSE IF c = "{" THEN <<"\\", "{">>
              ELSE IF c = "}" THEN <<"\\", "}">>
              ELSE IF c = "\n" THEN <<"\\", "N">>
              ELSE <<c>>) \o esc(Tail(s))

\* Variant: the lower clamp is missing.
clamp_min_only(res, x) == Min2(res, x)

\* x = max(0, min(play_res_x, x))
clamp(res, x) == Max2(0, Min2(res, x))

\* One Dialogue line: the fields that vary (Start, End, \pos override, text)
Dialogue(seg, play_res_x, play_res_y) ==
    [start |-> ass_time(seg.start),
     end   |-> ass_time(seg.end),
     pos   |-> <<clamp(play_res_x, seg.pos[1]), clamp(play_res_y, seg.pos[2])>>,
     text  |-> esc(strip(seg.text))]

\* Variant: a segment of blank text gives a Dialogue line too.
RECURSIVE dialogue_lines_with_blanks(_, _, _)
dialogue_lines_with_blanks(segs, play_res_x, play_res_y) ==
    IF segs = <<>> THEN <<>>
    ELSE <<Dialogue(segs[1], play_res_x, play_res_y)>>
            \o dialogue_lines_with_blanks(Tail(segs), play_res_x, play_res_y)

\* lines 348-356: the Dialogue lines of the document, in order
RECURSIVE dialogue_lines(_, _, _)
dialogue_lines(segs, play_res_x, play_res_y) ==
    IF segs = <<>> THEN <<>>
    ELSE LET rest == dialogue_lines(Tail(segs), play_res_x, play_res_y)
         IN  IF esc(strip(segs[1].text)) = <<>> THEN rest
             ELSE <<Dialogue(segs[1], play_res_x, play_res_y)>> \o rest

\* The document write_ass writes: the header's resolution and the lines.
write_ass(segs, play_res_x, play_res_y) ==
    [PlayResX |-> play_res_x, PlayResY |-> play_res_y,
     lines |-> dialogue_lines(segs, play_res_x, play_res_y)]

----------------------------------------------------------------------------
(* Inputs of the pipeline *)

Hello == <<"H", "e", "l", "l", "o">>

World == <<"W", "o", "r", "l", "d">>

\* The readings a frame can give: "a" and "A" differ as raw text and agree
\* once converted; the others are at distance 1/2 or 1 of each other.
Texts == {<<>>, <<"a">>, <<"A">>, <<"b">>, <<"a", "b">>, <<"b", "b">>}

\* The position the Recognition Adapter reports for a non-empty reading.
TextPos == <<960, 1000>>

\* A frame file with what cv2.imread and the recognition give for it:
\* img = FALSE is a file cv2.imread returns None for.
Frame(img, text, pos) == [img |-> img, text |-> text, pos |-> pos]

Unreadable == Frame(FALSE, <<>>, <<0, 0>>)

Reading(text) == Frame(TRUE, text, IF text = <<>> THEN <<0, 0>> ELSE TextPos)

\* A second place on the frame where a reading can be found.
OtherPos == <<400, 900>>

FrameOutcomes == {Unreadable} \cup {Reading(tx) : tx \in Texts}

\* "a", then "ab" found at the other place, then any reading
MovedFrames ==
    {<<Reading(<<"a">>), Frame(TRUE, <<"a", "b">>, OtherPos), f>> : f \in FrameOutcomes}

RECURSIVE SeqsUpTo(_, _)
SeqsUpTo(S, n) ==
    IF n = 0 THEN {<<>>}
    ELSE LET shorter == SeqsUpTo(S, n - 1)
         IN  shorter \cup {Append(q, x) : q \in {r \in shorter : Len(r) = n - 1}, x \in S}

\* The 10-frame scenario: frames 0-3 "Hello", frame 4 nothing, frames 5-9 "World".
ScenarioFrames ==
    [k \in 1..10 |-> IF k <= 4 THEN Reading(Hello)
                     ELSE IF k = 5 THEN Reading(<<>>)
                     ELSE Reading(World)]

FrameLists == SeqsUpTo(FrameOutcomes, MaxFrames) \cup {ScenarioFrames} \cup MovedFrames

FpsSet == {2, 4}

ThresholdSet == {0, 20, 50, 100}

HoldGapSet == {250, 1000}

FillGapsSet == {0, 2000}

PlayResSet == {<<1920, 1080>>}

----------------------------------------------------------------------------
(* process_video_to_ass *)

\* total = max(len(frame_files), 1)
total(fl) == Max2(Len(fl), 1)

\* Variant: the time of every other frame is that of the frame before it.
frame_time_in_pairs(k, fps) ==
    IF fps > 0 THEN ((k \div 2) * 2000) \div fps ELSE -(((k \div 2) * 2000) \div (-fps))

\* t = i / sample_fps, in ms (sample_fps # 0)
frame_time(k, fps) ==
    IF fps > 0 THEN (k * 1000) \div fps ELSE -((k * 1000) \div (-fps))

\* One call progress_cb(kind, frac, msg).  frac is held in units of
\* 1/(100 * total): 0.10 is 10 * total, and 0.10 + 0.85 * (k / total) is
\* 10 * total + 85 * k.
Call(kind, n) == <<kind, n>>

\* the scratch directory with its files
Dir(files) == <<files>>

NoDir == <<>>

\* keep_frames is tried with one choice of the other parameters, those of
\* the scenario: it has no part in what they do.
KeptWith ==
    /\ sample_fps = 2
    /\ change_threshold = 20
    /\ hold_gap = 250
    /\ fill_gaps = 2000

Init ==
    /\ pc = "start"
    /\ sample_fps \in FpsSet
    /\ change_threshold \in ThresholdSet
    /\ hold_gap \in HoldGapSet
    /\ fill_gaps \in FillGapsSet
    /\ play_res \in PlayResSet
    /\ keep_frames \in BOOLEAN
    /\ keep_frames => KeptWith
    /\ frame_files = <<>>
    /\ i = 0
    /\ prev_text_sc = None
    /\ items = <<>>
    /\ segments = <<>>
    /\ out_file = <<>>
    /\ frames_dir = NoDir
    /\ progress = <<>>
    /\ error = ""
    /\ arg = <<>>
    /\ ret = <<>>
    /\ runs = <<>>
    /\ gui = NoGui

\* Lines 373-387: the video exists and ffprobe describes it; the first
\* stage is announced.
start ==
    /\ pc = "start"
    /\ progress' = progress \o <<Call("stage", 0), Call("overall", 0)>>
    /\ pc' = "extract"
    /\ UNCHANGED <<params, frame_files, i, prev_text_sc, items, segments, out_file,
                   frames_dir, error, aside>>

\* Lines 373-380: the video is missing, or ffprobe fails on it.
start_fails ==
    /\ pc = "start"
    /\ error' \in {"FileNotFoundError", "RuntimeError"}
    /\ pc' = "raised"
    /\ UNCHANGED <<params, frame_files, i, prev_text_sc, items, segments, out_file,
                   frames_dir, progress, aside>>

\* Line 394, extract_frames: the directory is emptied and ffmpeg writes the
\* frames.
extract_frames ==
    /\ pc = "extract"
    /\ \E fl \in FrameLists :
          /\ frames_dir' = Dir(fl)
          /\ progress' = progress \o <<Call("overall", 0), Call("overall", 10 * total(fl))>>
    /\ pc' = "ocr_init"
    /\ UNCHANGED <<params, frame_files, i, prev_text_sc, items, segments, out_file,
                   error, aside>>

\* Lines 132-145: ffmpeg fails (run_cmd raises) after the directory was made.
extract_frames_fails ==
    /\ pc = "extract"
    /\ progress' = Append(progress, Call("overall", 0))
    /\ frames_dir' = Dir(<<>>)
    /\ error' = "RuntimeError"
    /\ pc' = "raised"
    /\ UNCHANGED <<params, frame_files, i, prev_text_sc, items, segments, out_file, aside>>

\* Lines 397-401 and 224-236: the second stage is announced, the OCR engine
\* is made, build_items lists the frames and starts with no items and no
\* previous text.
build_items_init ==
    /\ pc = "ocr_init"
    /\ frame_files' = frames_dir[1]
    /\ i' = 0
    /\ prev_text_sc' = None
    /\ items' = <<>>
    /\ LET T == total(frames_dir[1])
       IN  progress' = progress \o <<Call("stage", 0), Call("overall", 10 * T),
                                     Call("overall", 10 * T)>>
    /\ pc' = "ocr"
    /\ UNCHANGED <<params, segments, out_file, frames_dir, error, aside>>

\* Lines 224-227: paddleocr cannot be imported or PaddleOCR() raises.
build_items_init_fails ==
    /\ pc = "ocr_init"
    /\ LET T == total(frames_dir[1])
       IN  progress' = progress \o <<Call("stage", 0), Call("overall", 10 * T)>>
    /\ error' = "RuntimeError"
    /\ pc' = "raised"
    /\ UNCHANGED <<params, frame_files, i, prev_text_sc, items, segments, out_file,
                   frames_dir, aside>>

\* Line 271: progress_cb and (i % progress_every == 0 or i == total - 1)
reports_progress(k, T) == k % 5 = 0 \/ k = T - 1

\* Lines 238-272: one iteration of the loop of build_items.
build_items ==
    /\ pc = "ocr"
    /\ i < Len(frame_files)
    /\ IF sample_fps = 0
       THEN \* line 239 divides by zero
            /\ error' = "ZeroDivisionError"
            /\ pc' = "raised"
            /\ UNCHANGED <<i, prev_text_sc, items, progress>>
       ELSE /\ LET f == frame_files[i + 1]
                   t == frame_time(i, sample_fps)
                   T == total(frame_files)
               IN  IF ~f.img
                   THEN UNCHANGED <<prev_text_sc, items, progress>>
                   ELSE /\ items' = items_after(items, prev_text_sc, t, f.text, f.pos,
                                                change_threshold)
                        /\ prev_text_sc' = prev_after(prev_text_sc, f.text, change_threshold)
                        /\ progress' = IF reports_progress(i, T)
                                       THEN Append(progress, Call("overall", 10 * T + 85 * (i + 1)))
                                       ELSE progress
            /\ i' = i + 1
            /\ UNCHANGED <<pc, error>>
    /\ UNCHANGED <<params, frame_files, segments, out_file, frames_dir, aside>>

\* Line 245: the recognition raises on a frame.
build_items_fails ==
    /\ pc = "ocr"
    /\ i < Len(frame_files)
    /\ sample_fps # 0
    /\ frame_files[i + 1].img
    /\ error' = "RuntimeError"
    /\ pc' = "raised"
    /\ UNCHANGED <<params, frame_files, i, prev_text_sc, items, segments, out_file,
                   frames_dir, progress, aside>>

\* Line 274 and line 419: build_items returns, the segments are built.
\* Line 295 divides by sample_fps once there is a second Item.
call_items_to_segments ==
    /\ pc = "ocr"
    /\ i = Len(frame_files)
    /\ IF sample_fps = 0 /\ Len(items) >= 2
       THEN /\ error' = "ZeroDivisionError"
            /\ pc' = "raised"
            /\ UNCHANGED segments
       ELSE /\ segments' = items_to_segments(items, sample_fps, hold_gap)
            /\ pc' = "fill"
            /\ UNCHANGED error
    /\ UNCHANGED <<params, frame_files, i, prev_text_sc, items, out_file,
                   frames_dir, progress, aside>>

\* Lines 420-421: if fill_gaps and fill_gaps > 0
call_fill_gaps_upto ==
    /\ pc = "fill"
    /\ segments' = IF fill_gaps # 0 /\ fill_gaps > 0
                   THEN fill_gaps_upto(segments, fill_gaps)
                   ELSE segments
    /\ pc' = "write"
    /\ UNCHANGED <<params, frame_files, i, prev_text_sc, items, out_file,
                   frames_dir, progress, error, aside>>

\* Lines 424-436: the third stage is announced, the document is written,
\* the end is reported, the frames are removed unless keep_frames, and the
\* path is returned.
call_write_ass ==
    /\ pc = "write"
    /\ out_file' = <<write_ass(segments, play_res[1], play_res[2])>>
    /\ LET T == total(frame_files)
       IN  progress' = progress \o <<Call("stage", 0), Call("overall", 95 * T),
                                     Call("overall", 100 * T)>>
    /\ frames_dir' = IF keep_frames THEN frames_dir ELSE NoDir
    /\ pc' = "done"
    /\ UNCHANGED <<params, frame_files, i, prev_text_sc, items, segments, error, aside>>

\* What is on disk when writing the document fails half way: the header
\* and no complete Dialogue line.
Truncated(play_res_x, play_res_y) ==
    [PlayResX |-> play_res_x, PlayResY |-> play_res_y, lines |-> <<>>, truncated |-> TRUE]

\* Lines 358-359: open() fails and leaves the path as it was, or the write
\* fails after open() has created the file.
call_write_ass_fails ==
    /\ pc = "write"
    /\ \/ out_file' = out_file
       \/ out_file' = <<Truncated(play_res[1], play_res[2])>>
    /\ LET T == total(frame_files)
       IN  progress' = progress \o <<Call("stage", 0), Call("overall", 95 * T)>>
    /\ error' = "OSError"
    /\ pc' = "raised"
    /\ UNCHANGED <<params, frame_files, i, prev_text_sc, items, segments, frames_dir, aside>>

Next ==
    \/ start
    \/ start_fails
    \/ extract_frames
    \/ extract_frames_fails
    \/ build_items_init
    \/ build_items_init_fails
    \/ build_items
    \/ build_items_fails
    \/ call_items_to_segments
    \/ call_fill_gaps_upto
    \/ call_write_ass
    \/ call_write_ass_fails

Spec == Init /\ [][Next]_vars

\* The same run with a sample_fps that is not positive ----------------------

BadFpsSet == {0, -2}

InitBadFps ==
    /\ pc = "start"
    /\ sample_fps \in BadFpsSet
    /\ change_threshold \in {20}
    /\ hold_gap \in {250}
    /\ fill_gaps \in FillGapsSet
    /\ play_res \in PlayResSet
    /\ keep_frames \in BOOLEAN
    /\ frame_files = <<>>
    /\ i = 0
    /\ prev_text_sc = None
    /\ items = <<>>
    /\ segments = <<>>
    /\ out_file = <<>>
    /\ frames_dir = NoDir
    /\ progress = <<>>
    /\ error = ""
    /\ arg = <<>>
    /\ ret = <<>>
    /\ runs = <<>>
    /\ gui = NoGui

SpecBadFps == InitBadFps /\ [][Next]_vars

----------------------------------------------------------------------------
(* The functions applied to inputs of their own *)

\* What is left alone when a single function is applied.
idle == <<frame_files, i, prev_text_sc, frames_dir, progress, error, aside>>

\* no run of process_video_to_ass is going on
NoRun ==
    /\ keep_frames = FALSE
    /\ frames_dir = NoDir
    /\ progress = <<>>
    /\ error = ""
    /\ runs = <<>>

NoCall == arg = <<>> /\ ret = <<>>

\* items_to_segments on any ordered Item list ----------------------------

ItemTimes == {0, 250, 375, 750, 875}

ItemTexts == {<<"A">>, <<"b">>}

ItemPositions == {<<100, 900>>, <<200, 800>>}

ItemSet == {Item(t, tx, tx, p) : t \in ItemTimes, tx \in ItemTexts, p \in ItemPositions}

\* ordered by timestamp, strictly increasing, as build_items returns them
ItemLists ==
    {its \in SeqsUpTo(ItemSet, MaxItems) :
        \A k \in 1..(Len(its) - 1) : its[k].t < its[k + 1].t}

InitSeg ==
    /\ pc = "items"
    /\ sample_fps \in FpsSet
    /\ change_threshold = 0
    /\ hold_gap \in HoldGapSet
    /\ fill_gaps = 0
    /\ play_res \in PlayResSet
    /\ frame_files = <<>>
    /\ i = 0
    /\ prev_text_sc = None
    /\ items \in ItemLists
    /\ segments = <<>>
    /\ out_file = <<>>
    /\ NoRun
    /\ NoCall
    /\ gui = NoGui

do_items_to_segments ==
    /\ pc = "items"
    /\ segments' = items_to_segments(items, sample_fps, hold_gap)
    /\ pc' = "segments"
    /\ UNCHANGED <<params, idle, items, out_file>>

NextSeg == do_items_to_segments

SpecSeg == InitSeg /\ [][NextSeg]_vars

\* fill_gaps_upto on any Segment list, applied once and once more ----------

SegStarts == {0, 500, 1000}

SegLengths == {-250, 250, 500, 750}

SegTexts == {<<"A">>, <<"b">>}

SegSet == {Segment(st, st + d, tx, TextPos) : st \in SegStarts, d \in SegLengths, tx \in SegTexts}

MaxGapSet == {-250, 0, 250, 2000}

InitFill ==
    /\ pc = "segments"
    /\ sample_fps \in {2}
    /\ change_threshold = 0
    /\ hold_gap = 0
    /\ fill_gaps \in MaxGapSet
    /\ play_res \in PlayResSet
    /\ frame_files = <<>>
    /\ i = 0
    /\ prev_text_sc = None
    /\ items = <<>>
    /\ segments \in SeqsUpTo(SegSet, MaxSegs)
    /\ out_file = <<>>
    /\ NoRun
    /\ NoCall
    /\ gui = NoGui

do_fill_gaps_upto ==
    /\ pc \in {"segments", "filled"}
    /\ arg' = <<segments>>
    /\ segments' = fill_gaps_upto(segments, fill_gaps)
    /\ pc' = IF pc = "segments" THEN "filled" ELSE "refilled"
    /\ UNCHANGED <<params, frame_files, i, prev_text_sc, frames_dir, progress, error,
                   ret, runs, gui, items, out_file>>

NextFill == do_fill_gaps_upto

SpecFill == InitFill /\ [][NextFill]_vars

\* write_ass on any Segment list and resolution ----------------------------

PosX == {-5, 960, 1920, 9999}

PosY == {-5, 540, 1080, 9999}

WriteTexts == {<<"A">>, <<" ">>, <<"{", "b", " ">>}

WriteSegSet == {Segment(0, 2250, tx, <<x, y>>) : tx \in WriteTexts, x \in PosX, y \in PosY}

WriteResSet == {<<1920, 1080>>, <<640, 480>>, <<0, 0>>}

InitWrite ==
    /\ pc = "filled"
    /\ sample_fps \in {2}
    /\ change_threshold = 0
    /\ hold_gap = 0
    /\ fill_gaps = 0
    /\ play_res \in WriteResSet
    /\ frame_files = <<>>
    /\ i = 0
    /\ prev_text_sc = None
    /\ items = <<>>
    /\ segments \in SeqsUpTo(WriteSegSet, MaxSegs)
    /\ out_file = <<>>
    /\ NoRun
    /\ NoCall
    /\ gui = NoGui

do_write_ass ==
    /\ pc = "filled"
    /\ out_file' = <<write_ass(segments, play_res[1], play_res[2])>>
    /\ pc' = "written"
    /\ UNCHANGED <<params, idle, items, segments>>

NextWrite == do_write_ass

SpecWrite == InitWrite /\ [][NextWrite]_vars

\* ass_time on times around the carries -------------------------------------

CarryTimes == {0, 60000, 3600000}

TimeInputs ==
    {a + d : a \in CarryTimes, d \in (-TimeWindow)..TimeWindow} \cap Nat

InitTime ==
    /\ pc = "filled"
    /\ sample_fps \in {2}
    /\ change_threshold = 0
    /\ hold_gap = 0
    /\ fill_gaps = 0
    /\ play_res \in PlayResSet
    /\ frame_files = <<>>
    /\ i = 0
    /\ prev_text_sc = None
    /\ items = <<>>
    /\ \E st \in TimeInputs, en \in TimeInputs :
          /\ st <= en
          /\ segments = <<Segment(st, en, <<"A">>, TextPos)>>
    /\ out_file = <<>>
    /\ NoRun
    /\ NoCall
    /\ gui = NoGui

SpecTime == InitTime /\ [][NextWrite]_vars

----------------------------------------------------------------------------
(* roi_crop, applied on its own *)

\* Where Python's slicing puts the bound v of a slice of n places: a
\* negative bound counts from the end, and both are clipped to 0..n.
slice_bound(v, n) == IF v < 0 THEN Max2(v + n, 0) ELSE Min2(v, n)

\* the places 0..n-1 that the slice [lo:hi] takes
sliced(lo, hi, n) == {k \in 0..(n - 1) : slice_bound(lo, n) <= k /\ k < slice_bound(hi, n)}

\* Lines 152-157.  A frame of w x h is the set of its pixels <<column, row>>;
\* the result holds the pixels of img[y:y2, x:x2] and the offset x, y.
roi_crop(w, h, custom) ==
    LET x == custom[1]
        y == custom[2]
        cw == custom[3]
        ch == custom[4]
        x2 == Min2(w, x + cw)
        y2 == Min2(h, y + ch)
    IN  [img |-> sliced(x, x2, w) \X sliced(y, y2, h), x |-> x, y |-> y]

\* the variables of a run of process_video_to_ass, at rest
pipeline == <<params, frame_files, i, prev_text_sc, items, segments, out_file,
              frames_dir, progress, error, runs, gui>>

AtRest ==
    /\ sample_fps = 2
    /\ change_threshold = 0
    /\ hold_gap = 0
    /\ fill_gaps = 0
    /\ play_res = <<1920, 1080>>
    /\ frame_files = <<>>
    /\ i = 0
    /\ prev_text_sc = None
    /\ items = <<>>
    /\ segments = <<>>
    /\ out_file = <<>>
    /\ NoRun

FrameSizes == {<<4, 3>>, <<3, 4>>}

RegionStarts == {-5, -2, -1, 0, 1, 3, 5}

RegionSizes == {0, 1, 2, 6}

InitCrop ==
    /\ pc = "roi_crop"
    /\ AtRest
    /\ gui = NoGui
    /\ \E size \in FrameSizes, x \in RegionStarts, y \in RegionStarts,
          cw \in RegionSizes, ch \in RegionSizes :
          arg = [w |-> size[1], h |-> size[2], custom |-> <<x, y, cw, ch>>]
    /\ ret = <<>>

do_roi_crop ==
    /\ pc = "roi_crop"
    /\ ret' = <<roi_crop(arg.w, arg.h, arg.custom)>>
    /\ pc' = "cropped"
    /\ UNCHANGED <<pipeline, arg>>

NextCrop == do_roi_crop

SpecCrop == InitCrop /\ [][NextCrop]_vars

----------------------------------------------------------------------------
(* pick_best_text_and_pos, applied on its own *)

\* A Python value as the function sees it: its type, and its elements
\* (list, tuple), its characters (str) or its number (int, float).
PyVal(ty, elems, s, n) == [ty |-> ty, elems |-> elems, s |-> s, n |-> n]

PyNone == PyVal("none", <<>>, <<>>, 0)

PyList(elems) == PyVal("list", elems, <<>>, 0)

PyTuple(elems) == PyVal("tuple", elems, <<>>, 0)

PyStr(s) == PyVal("str", <<>>, s, 0)

PyNum(n) == PyVal("num", <<>>, <<>>, n)

\* isinstance(v, (list, tuple))
is_list_or_tuple(v) == v.ty \in {"list", "tuple"}

\* bool(v), as in `not v`
py_bool(v) ==
    CASE v.ty = "none" -> FALSE
      [] v.ty \in {"list", "tuple"} -> v.elems # <<>>
      [] v.ty = "str" -> v.s # <<>>
      [] OTHER -> v.n # 0

\* str(v): a str is itself, a number is its digits (held as one symbol), and
\* the text of a list or tuple begins and ends with its brackets.
py_str(v) ==
    CASE v.ty = "str" -> v.s
      [] v.ty = "num" -> <<ToString(v.n)>>
      [] v.ty = "none" -> <<"N", "o", "n", "e">>
      [] OTHER -> <<"[", "]">>

\* What `for x in v` goes through; None and numbers are not iterable.
iterable(v) == v.ty \in {"list", "tuple", "str"}

py_iter(v) ==
    IF is_list_or_tuple(v) THEN v.elems
    ELSE [k \in 1..Len(v.s) |-> PyStr(<<v.s[k]>>)]

\* The exception float(v) raises, "" if none.  The strings of the model
\* hold no digit, so float() of any of them is a ValueError.
float_raises(v) ==
    CASE v.ty = "num" -> ""
      [] v.ty = "str" -> "ValueError"
      [] OTHER -> "TypeError"

\* re.sub(r"\s+", " ", s)
RECURSIVE collapse_spaces(_)
collapse_spaces(s) ==
    IF s = <<>> THEN <<>>
    ELSE IF IsSpace(s[1])
         THEN <<" ">> \o collapse_spaces(lstrip(s))
         ELSE <<s[1]>> \o collapse_spaces(Tail(s))

\* Lines 109-113; the characters U+4E28 and U+FF5C are held by their names.
clean_text(s) ==
    LET t == collapse_spaces(strip(s))
    IN  [k \in 1..Len(t) |-> IF t[k] = "U+4E28" THEN "U+FF5C" ELSE t[k]]

\* Lines 166-169: a list holding one list is unwrapped.
lines_of(ocr_result) ==
    IF ocr_result.ty = "list" /\ Len(ocr_result.elems) = 1 /\ ocr_result.elems[1].ty = "list"
    THEN ocr_result.elems[1]
    ELSE ocr_result

\* Lines 176-192: the line passes every `continue`.
line_kept(line) ==
    /\ line.ty # "none"
    /\ is_list_or_tuple(line)
    /\ Len(line.elems) >= 2
    /\ LET box == line.elems[1]
           info == line.elems[2]
       IN  /\ py_bool(info)
           /\ is_list_or_tuple(info)
           /\ Len(info.elems) >= 1
           /\ py_bool(info.elems[1])
           /\ strip(py_str(info.elems[1])) # <<>>
           /\ py_bool(box)
           /\ is_list_or_tuple(box)
           /\ Len(box.elems) >= 4

\* " ".join(texts)
RECURSIVE join_spaces(_)
join_spaces(texts) ==
    IF texts = <<>> THEN <<>>
    ELSE IF Len(texts) = 1 THEN texts[1]
    ELSE texts[1] \o <<" ">> \o join_spaces(Tail(texts))

\* Lines 200-205: the values handed to float(), in order: p[0] and p[1] of
\* every p of every kept box that is a list or tuple of two or more.
RECURSIVE coords_of_points(_)
coords_of_points(points) ==
    IF points = <<>> THEN <<>>
    ELSE (IF is_list_or_tuple(points[1]) /\ Len(points[1].elems) >= 2
          THEN <<points[1].elems[1], points[1].elems[2]>>
          ELSE <<>>) \o coords_of_points(Tail(points))

RECURSIVE coords_of_boxes(_)
coords_of_boxes(boxes) ==
    IF boxes = <<>> THEN <<>>
    ELSE coords_of_points(boxes[1].elems) \o coords_of_boxes(Tail(boxes))

\* the exception of the first float() that raises, "" if none does
RECURSIVE first_raise(_)
first_raise(coords) ==
    IF coords = <<>> THEN ""
    ELSE IF float_raises(coords[1]) # "" THEN float_raises(coords[1])
    ELSE first_raise(Tail(coords))

\* int(v / 2), which truncates towards zero
int_half(v) == IF v >= 0 THEN v \div 2 ELSE -((-v) \div 2)

SetMin(S) == CHOOSE v \in S : \A u \in S : v <= u

SetMax(S) == CHOOSE v \in S : \A u \in S : v >= u

Returned(text, pos) == [raised |-> "", text |-> text, pos |-> pos]

Raised(kind) == [raised |-> kind, text |-> <<>>, pos |-> <<0, 0>>]

\* Lines 160-212.
pick_best_text_and_pos(ocr_result, x_off, y_off) ==
    IF ocr_result.ty = "none" THEN Returned(<<>>, <<0, 0>>)
    ELSE IF ocr_result.ty = "list" /\ ocr_result.elems = <<>> THEN Returned(<<>>, <<0, 0>>)
    ELSE LET lines == lines_of(ocr_result)
         IN  IF lines.ty = "none" THEN Returned(<<>>, <<0, 0>>)
             ELSE IF ~iterable(lines) THEN Raised("TypeError")
             ELSE LET kept == SelectSeq(py_iter(lines), line_kept)
                      texts == [k \in 1..Len(kept) |-> clean_text(py_str(kept[k].elems[2].elems[1]))]
                      boxes == [k \in 1..Len(kept) |-> kept[k].elems[1]]
                      coords == coords_of_boxes(boxes)
                      xs == {coords[k].n : k \in {j \in 1..Len(coords) : j % 2 = 1}}
                      ys == {coords[k].n : k \in {j \in 1..Len(coords) : j % 2 = 0}}
                  IN  IF texts = <<>> THEN Returned(<<>>, <<0, 0>>)
                      ELSE IF first_raise(coords) # "" THEN Raised(first_raise(coords))
                      ELSE IF coords = <<>> THEN Returned(<<>>, <<0, 0>>)
                      ELSE Returned(strip(join_spaces(texts)),
                                    <<int_half(SetMin(xs) + SetMax(xs)) + x_off,
                                      int_half(SetMin(ys) + SetMax(ys)) + y_off>>)

\* Results of the recognition ---------------------------------------------

Point(x, y) == PyList(<<PyNum(x), PyNum(y)>>)

Box(x1, y1, x2, y2) == PyList(<<Point(x1, y1), Point(x2, y1), Point(x2, y2), Point(x1, y2)>>)

\* a line as the OCR engine gives it: [box, (text, confidence)]
Line(box, text) == PyList(<<box, PyTuple(<<text, PyNum(1)>>)>>)

BoxA == Box(10, 20, 30, 40)

BoxB == Box(50, 60, 90, 80)

ConformingLines == {Line(BoxA, PyStr(<<"a">>)), Line(BoxB, PyStr(<<" ", "b", " ", " ", "b">>))}

\* entries that are None, no sequence, too short, without info, with an
\* empty or blank text, with no box or a box of three points
MalformedLines ==
    { PyNone,
      PyStr(<<"a">>),
      PyList(<<BoxA>>),
      PyList(<<BoxA, PyNone>>),
      Line(BoxA, PyStr(<<>>)),
      Line(BoxA, PyStr(<<" ", " ">>)),
      Line(PyNone, PyStr(<<"a">>)),
      Line(PyList(<<Point(1, 2), Point(3, 2), Point(3, 4)>>), PyStr(<<"a">>)) }

\* entries with a box of four points that are not points: None for a
\* point, None for a coordinate, a word for a coordinate
MalformedPointLines ==
    { Line(PyList(<<PyNone, PyNone, PyNone, PyNone>>), PyStr(<<"c">>)),
      Line(PyList(<<Point(1, 2), Point(3, 2), Point(3, 4), PyList(<<PyNone, PyNum(4)>>)>>),
           PyStr(<<"c">>)),
      Line(PyList(<<Point(1, 2), Point(3, 2), Point(3, 4), PyList(<<PyStr(<<"a">>), PyNum(4)>>)>>),
           PyStr(<<"c">>)) }

LineEntries == ConformingLines \cup MalformedLines \cup MalformedPointLines

MaxLines == 2

\* None, an empty list, a number, and lists of entries as such, as a tuple
\* and wrapped in a list
OcrResults ==
    {PyNone, PyList(<<>>), PyNum(0), PyList(<<PyNone>>)}
        \cup {PyList(ls) : ls \in SeqsUpTo(LineEntries, MaxLines)}
        \cup {PyTuple(ls) : ls \in SeqsUpTo(LineEntries, MaxLines)}
        \cup {PyList(<<PyList(ls)>>) : ls \in SeqsUpTo(LineEntries, MaxLines)}

Offsets == {<<0, 0>>, <<100, 700>>}

InitPick ==
    /\ pc = "pick_best_text_and_pos"
    /\ AtRest
    /\ gui = NoGui
    /\ \E res \in OcrResults, off \in Offsets :
          arg = [ocr_result |-> res, x_off |-> off[1], y_off |-> off[2]]
    /\ ret = <<>>

do_pick_best_text_and_pos ==
    /\ pc = "pick_best_text_and_pos"
    /\ ret' = <<pick_best_text_and_pos(arg.ocr_result, arg.x_off, arg.y_off)>>
    /\ pc' = "picked"
    /\ UNCHANGED <<pipeline, arg>>

NextPick == do_pick_best_text_and_pos

SpecPick == InitPick /\ [][NextPick]_vars

----------------------------------------------------------------------------
(* Two runs of process_video_to_ass in one working directory *)

RunIds == {"A", "B"}

\* the frames ffmpeg extracts from the video of each run, each frame named
\* by its run and its number
FramesOf(r) == IF r = "A" THEN <<<<"A", 1>>, <<"A", 2>>>> ELSE <<<<"B", 1>>>>

\* what cv2.imread gives for a file that is not there
Missing == <<"None", 0>>

\* a run: where it is, the number of files it listed, the loop index, the
\* frames it has recognized (Missing where cv2.imread returned None)
Run(at, n, idx, read) == [pc |-> at, n |-> n, i |-> idx, read |-> read]

\* ffmpeg writes frame_000001.png, ... over the files of the same names
overwrite(old, new) ==
    [k \in 1..Max2(Len(old), Len(new)) |-> IF k <= Len(new) THEN new[k] ELSE old[k]]

InitTwoRuns ==
    /\ pc = "two_runs"
    /\ sample_fps = 2
    /\ change_threshold = 0
    /\ hold_gap = 0
    /\ fill_gaps = 0
    /\ play_res = <<1920, 1080>>
    /\ keep_frames \in BOOLEAN
    /\ frame_files = <<>>
    /\ i = 0
    /\ prev_text_sc = None
    /\ items = <<>>
    /\ segments = <<>>
    /\ out_file = <<>>
    /\ frames_dir = NoDir
    /\ progress = <<>>
    /\ error = ""
    /\ NoCall
    /\ runs = [r \in RunIds |-> Run("start", 0, 0, <<>>)]
    /\ gui = NoGui

alone == <<pc, sample_fps, change_threshold, hold_gap, fill_gaps, play_res, keep_frames,
           frame_files, i, prev_text_sc, items, segments, out_file, progress, error,
           arg, ret, gui>>

\* Line 378 and lines 136-138: frames_dir = "_frames_tmp" is removed if it
\* exists and made anew.
run_makedirs(r) ==
    /\ runs[r].pc = "start"
    /\ frames_dir' = Dir(<<>>)
    /\ runs' = [runs EXCEPT ![r].pc = "ffmpeg"]
    /\ UNCHANGED alone

\* Lines 140-145: ffmpeg writes the frames of the run's video into the
\* directory; it fails when the directory is gone.
run_ffmpeg(r) ==
    /\ runs[r].pc = "ffmpeg"
    /\ IF frames_dir = NoDir
       THEN /\ runs' = [runs EXCEPT ![r].pc = "raised"]
            /\ UNCHANGED frames_dir
       ELSE /\ frames_dir' = Dir(overwrite(frames_dir[1], FramesOf(r)))
            /\ runs' = [runs EXCEPT ![r].pc = "listdir"]
    /\ UNCHANGED alone

\* Lines 229-233: os.listdir(frames_dir), which raises when the directory
\* is gone.
run_listdir(r) ==
    /\ runs[r].pc = "listdir"
    /\ runs' = IF frames_dir = NoDir
               THEN [runs EXCEPT ![r].pc = "raised"]
               ELSE [runs EXCEPT ![r].pc = "ocr", ![r].n = Len(frames_dir[1]), ![r].i = 0]
    /\ UNCHANGED <<alone, frames_dir>>

\* Lines 238-247: cv2.imread of the next listed file, None when the file is
\* no longer there.
run_imread(r) ==
    /\ runs[r].pc = "ocr"
    /\ runs[r].i < runs[r].n
    /\ LET k == runs[r].i + 1
           frame == IF frames_dir # NoDir /\ k <= Len(frames_dir[1])
                    THEN frames_dir[1][k]
                    ELSE Missing
       IN  runs' = [runs EXCEPT ![r].i = k, ![r].read = Append(@, frame)]
    /\ UNCHANGED <<alone, frames_dir>>

\* Lines 419-436: the document is written and, unless keep_frames,
\* shutil.rmtree(frames_dir, ignore_errors=True).
run_return(r) ==
    /\ runs[r].pc = "ocr"
    /\ runs[r].i = runs[r].n
    /\ frames_dir' = IF keep_frames THEN frames_dir ELSE NoDir
    /\ runs' = [runs EXCEPT ![r].pc = "done"]
    /\ UNCHANGED alone

NextTwoRuns ==
    \E r \in RunIds :
        \/ run_makedirs(r)
        \/ run_ffmpeg(r)
        \/ run_listdir(r)
        \/ run_imread(r)
        \/ run_return(r)

SpecTwoRuns == InitTwoRuns /\ [][NextTwoRuns]_vars

----------------------------------------------------------------------------
(* main.py: run_ocr, its worker thread and the callbacks of the UI thread *)

MaxWorkers == 2

WorkerIds == 1..MaxWorkers

\* The window.  A worker thread is "unborn", then "started", "reported" once
\* it has called progress_cb, "except" while it is in its except clause
\* (where its variable e is bound), and "ended".  `after` holds the
\* callbacks scheduled with root.after(0, ...), in order; `handled` the
\* handlers that have run.
Gui(btn_select, btn_preview, btn_run, progress_var, workers, after, handled) ==
    [btn_select |-> btn_select, btn_preview |-> btn_preview, btn_run |-> btn_run,
     progress_var |-> progress_var, workers |-> workers, after |-> after,
     handled |-> handled]

\* Lines 209-217.
set_controls_enabled(g, enabled) ==
    LET state == IF enabled THEN "normal" ELSE "disabled"
    IN  [g EXCEPT !.btn_select = state, !.btn_preview = state, !.btn_run = state]

\* a callback of the after queue: its kind, the worker that scheduled it and
\* the fraction it carries, in percent
Callback(kind, w, frac) == <<kind, w, frac>>

\* the fractions a worker reports before it returns or raises
ReportedFractions == {0, 10, 95}

InitGui ==
    /\ pc = "mainloop"
    /\ AtRest
    /\ NoCall
    /\ gui = Gui("normal", "normal", "normal", 0, [w \in WorkerIds |-> "unborn"], <<>>, <<>>)

still == <<pc, sample_fps, change_threshold, hold_gap, fill_gaps, play_res, keep_frames,
           frame_files, i, prev_text_sc, items, segments, out_file, frames_dir, progress,
           error, arg, ret, runs>>

\* Lines 361-416, run as the command of btn_run (line 97), which Tk calls
\* only while the button is not disabled; a video and a region are chosen.
run_ocr ==
    /\ gui.btn_run = "normal"
    /\ \E w \in WorkerIds :
          /\ gui.workers[w] = "unborn"
          /\ \A v \in WorkerIds : v < w => gui.workers[v] # "unborn"
          /\ gui' = [set_controls_enabled(gui, FALSE)
                        EXCEPT !.progress_var = 0, !.workers[w] = "started"]
    /\ UNCHANGED still

\* Lines 394-398: process_video_to_ass calls progress_cb on the worker
\* thread, which schedules _update on the UI thread.
worker_progress_cb(w) ==
    /\ gui.workers[w] = "started"
    /\ \E frac \in ReportedFractions :
          gui' = [gui EXCEPT !.workers[w] = "reported",
                             !.after = Append(@, Callback("update", w, frac))]
    /\ UNCHANGED still

\* Lines 402-411: process_video_to_ass returns; _on_ocr_success is
\* scheduled and the thread ends.
worker_returns(w) ==
    /\ gui.workers[w] = "reported"
    /\ gui' = [gui EXCEPT !.workers[w] = "ended",
                          !.after = Append(@, Callback("success", w, 100))]
    /\ UNCHANGED still

\* Lines 412-414: process_video_to_ass raises; in the except clause the
\* lambda that will call _on_ocr_error(str(e), tb) is scheduled.
worker_raises(w) ==
    /\ gui.workers[w] \in {"started", "reported"}
    /\ gui' = [gui EXCEPT !.workers[w] = "except",
                          !.after = Append(@, Callback("error", w, 0))]
    /\ UNCHANGED still

\* End of the except clause of line 412: Python unbinds e, the thread ends.
worker_leaves_except(w) ==
    /\ gui.workers[w] = "except"
    /\ gui' = [gui EXCEPT !.workers[w] = "ended"]
    /\ UNCHANGED still

\* max(0.0, min(100.0, frac * 100.0)), line 396
bar(frac) == Max2(0, Min2(100, frac))

\* The UI thread runs the first scheduled callback: _update (lines 395-397),
\* _on_ocr_success (lines 418-423), or the lambda of line 414, which reads
\* the worker's e: when e is unbound it raises NameError and
\* _on_ocr_error (lines 425-430) is not called.
ui_runs_callback ==
    /\ gui.after # <<>>
    /\ LET cb == Head(gui.after)
           rest == [gui EXCEPT !.after = Tail(@)]
       IN  gui' = CASE cb[1] = "update" -> [rest EXCEPT !.progress_var = bar(cb[3])]
                    [] cb[1] = "success" ->
                          [set_controls_enabled(rest, TRUE)
                              EXCEPT !.progress_var = 100,
                                     !.handled = Append(@, <<"_on_ocr_success", cb[2]>>)]
                    [] OTHER ->
                          IF gui.workers[cb[2]] = "except"
                          THEN [set_controls_enabled(rest, TRUE)
                                  EXCEPT !.handled = Append(@, <<"_on_ocr_error", cb[2]>>)]
                          ELSE rest
    /\ UNCHANGED still

NextGui ==
    \/ run_ocr
    \/ \E w \in WorkerIds :
          \/ worker_progress_cb(w)
          \/ worker_returns(w)
          \/ worker_raises(w)
          \/ worker_leaves_except(w)
    \/ ui_runs_callback

SpecGui == InitGui /\ [][NextGui]_vars

----------------------------------------------------------------------------
(* Properties *)

\* timestamp of the k-th frame file (k from 1): t = i / sample_fps
FrameTime(k) == ((k - 1) * 1000) \div sample_fps

\* text, start and end of each segment, in order
SegmentTimes(segs) ==
    [k \in 1..Len(segs) |-> <<segs[k].text, segs[k].start, segs[k].end>>]

HasText(f) == f.img /\ f.text # <<>>

\* The 10-frame scenario with its parameters (fill_gaps apart)
ScenarioInput ==
    /\ frame_files = ScenarioFrames
    /\ sample_fps = 2
    /\ change_threshold = 20
    /\ hold_gap = 250

\* C1: for the 10-frame scenario with fill_gaps = 2.0, the segments after
\* build_items, items_to_segments and fill_gaps_upto are exactly
\* ("Hello", 0.0, 2.5) and ("World", 2.5, 4.75).
C1_ScenarioFinal ==
    (ScenarioInput /\ fill_gaps = 2000 /\ pc \in {"write", "done"})
        => SegmentTimes(segments) = <<<<Hello, 0, 2500>>, <<World, 2500, 4750>>>>

C1_Witness ==
    ScenarioInput /\ fill_gaps = 2000 /\ pc = "done" /\ Len(segments) = 2

\* C2 as stated: for the 10-frame scenario the Segment Builder's output,
\* before gap filling, is exactly ("Hello", 0.0, 2.25) and
\* ("World", 2.5, 4.75), so the gap handed to the Gap Filler is 0.25.
C2_Original ==
    (ScenarioInput /\ pc = "fill")
        => /\ SegmentTimes(segments) = <<<<Hello, 0, 2250>>, <<World, 2500, 4750>>>>
           /\ segments[2].start - segments[1].end = 250

\* C2 (amended): the last "Hello" frame is frame 3 at t = 1.5, so the Segment
\* Builder's output is exactly ("Hello", 0.0, 1.75) and ("World", 2.5, 4.75),
\* and the gap handed to the Gap Filler is 0.75.
C2_ScenarioBuilt ==
    (ScenarioInput /\ pc = "fill")
        => /\ SegmentTimes(segments) = <<<<Hello, 0, 1750>>, <<World, 2500, 4750>>>>
           /\ segments[2].start - segments[1].end = 750

C2_Witness ==
    ScenarioInput /\ pc = "fill" /\ Len(items) = 9

\* C3 as stated: with change_threshold = 1 the segments built from any
\* sequence of readings are at most one.
C3_Original ==
    (change_threshold = 100 /\ pc = "fill") => Len(segments) <= 1

\* every frame is readable, reads some text, and that text is at normalized
\* distance < 1 of the first frame's text
AllCloseToFirst ==
    /\ frame_files # <<>>
    /\ \A k \in 1..Len(frame_files) :
          /\ HasText(frame_files[k])
          /\ distance(frame_files[1].text, frame_files[k].text)
                < Max2(Len(frame_files[1].text), Len(frame_files[k].text))

\* C3 (amended): with change_threshold = 1, when every frame is readable and
\* non-empty and every reading is at normalized distance < 1 of the first
\* reading, all observations merge into one segment, which carries the first
\* reading's converted text and spans from the first to the last frame.
C3_SingleSegment ==
    (change_threshold = 100 /\ pc = "fill" /\ AllCloseToFirst)
        => /\ Len(segments) = 1
           /\ segments[1].text = convert(frame_files[1].text)
           /\ segments[1].start = 0
           /\ segments[1].end = FrameTime(Len(frame_files)) + hold_gap

C3_Witness ==
    /\ change_threshold = 100
    /\ pc = "fill"
    /\ AllCloseToFirst
    /\ Len(segments) = 1
    /\ \E k \in 1..Len(frame_files) : frame_files[k].text # frame_files[1].text

\* every Item carries the reading of the frame it was made from
OwnReadings ==
    \A n \in 1..Len(items) :
        LET k == ((items[n].t * sample_fps) \div 1000) + 1
        IN  /\ k \in 1..Len(frame_files)
            /\ HasText(frame_files[k])
            /\ items[n].text_sc = frame_files[k].text
            /\ items[n].text_tc = convert(frame_files[k].text)

SegmentStartsAt(t) == \E j \in 1..Len(segments) : segments[j].start = t

\* C4 as stated: with change_threshold = 0 every Item carries its frame's own
\* reading and every change of raw text between consecutive non-empty frames
\* starts a new segment.
C4_Original ==
    (change_threshold = 0 /\ pc = "fill")
        => /\ OwnReadings
           /\ \A k \in 1..(Len(frame_files) - 1) :
                (/\ HasText(frame_files[k])
                 /\ HasText(frame_files[k + 1])
                 /\ frame_files[k].text # frame_files[k + 1].text)
                    => SegmentStartsAt(FrameTime(k + 1))

\* C4 (amended): with change_threshold = 0 every Item carries its frame's own
\* reading, and between consecutive non-empty frames a new segment starts
\* exactly when the converted text changes (a change of raw text that the
\* conversion removes starts none).
C4_NoFuzzyMerging ==
    (change_threshold = 0 /\ pc = "fill")
        => /\ OwnReadings
           /\ \A k \in 1..(Len(frame_files) - 1) :
                (HasText(frame_files[k]) /\ HasText(frame_files[k + 1]))
                    => (SegmentStartsAt(FrameTime(k + 1))
                          <=> convert(frame_files[k].text) # convert(frame_files[k + 1].text))

C4_Witness ==
    /\ change_threshold = 0
    /\ pc = "fill"
    /\ Len(segments) >= 2
    /\ \E k \in 1..(Len(frame_files) - 1) :
          /\ HasText(frame_files[k])
          /\ HasText(frame_files[k + 1])
          /\ convert(frame_files[k].text) # convert(frame_files[k + 1].text)
          /\ distance(frame_files[k].text, frame_files[k + 1].text)
                < Max2(Len(frame_files[k].text), Len(frame_files[k + 1].text))
    /\ \E k \in 1..(Len(frame_files) - 1) :
          /\ HasText(frame_files[k])
          /\ HasText(frame_files[k + 1])
          /\ frame_files[k].text # frame_files[k + 1].text
          /\ convert(frame_files[k].text) = convert(frame_files[k + 1].text)

\* C5: the noise test is strictly less-than.  In a step of build_items on a
\* non-empty reading with a non-empty previous text at normalized distance d:
\* if d < change_threshold the Item carries the previous text and the
\* previous text stays; otherwise, and so when d = change_threshold, the Item
\* carries the reading and the reading becomes the previous text.
C5_StrictlyLess ==
    [][(/\ pc = "ocr"
        /\ i < Len(frame_files)
        /\ i' = i + 1
        /\ HasText(frame_files[i + 1])
        /\ Truthy(prev_text_sc))
          => LET text == frame_files[i + 1].text
                 prev == prev_text_sc[1]
                 maxlen == Max2(Len(prev), Len(text))
                 d100 == distance(prev, text) * 100
             IN  /\ Len(items') = Len(items) + 1
                 /\ IF d100 < change_threshold * maxlen
                    THEN /\ items'[Len(items')].text_sc = prev
                         /\ prev_text_sc' = prev_text_sc
                    ELSE /\ items'[Len(items')].text_sc = text
                         /\ prev_text_sc' = Some(text)]_vars

\* the second frame is at distance exactly change_threshold of the first
C5_Witness ==
    /\ pc = "ocr"
    /\ i >= 2
    /\ change_threshold > 0
    /\ HasText(frame_files[1])
    /\ HasText(frame_files[2])
    /\ distance(frame_files[1].text, frame_files[2].text) * 100
          = change_threshold * Max2(Len(frame_files[1].text), Len(frame_files[2].text))
    /\ Len(items) >= 2
    /\ items[2].text_sc = frame_files[2].text
    /\ prev_text_sc = Some(frame_files[2].text)

\* C6: fill_gaps_upto is idempotent: applied to its own result with the same
\* max_gap it changes nothing (order, start, end, text, position).
C6_Idempotent ==
    [][(pc = "filled" /\ pc' = "refilled") => segments' = segments]_vars

C6_Witness ==
    /\ pc = "refilled"
    /\ Len(segments) >= 2
    /\ segments[1].end = segments[2].start
    /\ segments[1].text # segments[2].text

\* C7: the segments handed to write_ass are sorted by start, do not overlap
\* and end no earlier than they start, whatever the parameters.
C7_Original ==
    pc \in {"write", "done"}
        => \A k \in 1..Len(segments) :
              /\ segments[k].end >= segments[k].start
              /\ k < Len(segments)
                    => /\ segments[k].start <= segments[k + 1].start
                       /\ segments[k].end <= segments[k + 1].start

\* the printed H:MM:SS.CC in centiseconds
Printed(tm) == ((tm.h * 60 + tm.m) * 60 + tm.s) * 100 + tm.cs

TimeAsPrinted(k, tm) ==
    /\ tm.cs \in 0..99
    /\ tm.s \in 0..59
    /\ tm.m \in 0..59
    /\ Abs(Printed(tm) * 10 - k) <= 5
    /\ k = 0 => tm = [h |-> 0, m |-> 0, s |-> 0, cs |-> 0]
    /\ k = 59999 => tm = [h |-> 0, m |-> 1, s |-> 0, cs |-> 0]
    /\ k = 60000 => tm = [h |-> 0, m |-> 1, s |-> 0, cs |-> 0]
    /\ k = 3599995 => tm = [h |-> 1, m |-> 0, s |-> 0, cs |-> 0]

\* C8: ass_time prints a time of k ms as H:MM:SS.CC with CC in 0..99, SS and
\* MM in 0..59, the value being k rounded to the nearest centisecond with the
\* carry taken into seconds, minutes and hours; 0.0, 59.999, 60.0 and
\* 3599.995 print as 0:00:00.00, 0:01:00.00, 0:01:00.00 and 1:00:00.00.
C8_Original ==
    (pc = "written" /\ Len(segments) = 1 /\ Len(out_file[1].lines) = 1)
        => /\ TimeAsPrinted(segments[1].start, out_file[1].lines[1].start)
           /\ TimeAsPrinted(segments[1].end, out_file[1].lines[1].end)

\* the segments write_ass makes a Dialogue line of
Kept(segs) == SelectSeq(segs, LAMBDA sg : strip(sg.text) # <<>>)

Clamped(res, x) == IF x < 0 THEN 0 ELSE IF x > res THEN res ELSE x

\* C9: the position written in \pos is (max(0, min(playResX, x)),
\* max(0, min(playResY, y))) and so lies in [0, playResX] x [0, playResY];
\* (-5, 9999) at 1920x1080 is written as (0, 1080).
C9_PosClamped ==
    pc = "written"
        => LET lines == out_file[1].lines
               kept == Kept(segments)
           IN  /\ Len(lines) = Len(kept)
               /\ \A k \in 1..Len(lines) :
                     /\ lines[k].pos[1] \in 0..play_res[1]
                     /\ lines[k].pos[2] \in 0..play_res[2]
                     /\ lines[k].pos = <<Clamped(play_res[1], kept[k].pos[1]),
                                         Clamped(play_res[2], kept[k].pos[2])>>
                     /\ (play_res = <<1920, 1080>> /\ kept[k].pos = <<-5, 9999>>)
                            => lines[k].pos = <<0, 1080>>

C9_Witness ==
    /\ pc = "written"
    /\ play_res = <<1920, 1080>>
    /\ \E k \in 1..Len(segments) : segments[k].pos = <<-5, 9999>> /\ strip(segments[k].text) # <<>>
    /\ \E k \in 1..Len(out_file[1].lines) : out_file[1].lines[k].pos = <<0, 1080>>

\* the segments Item k lies in: same text, start <= t <= last time
SegsOf(k) ==
    {j \in 1..Len(segments) :
        /\ segments[j].text = items[k].text_tc
        /\ segments[j].start <= items[k].t
        /\ items[k].t <= segments[j].end - hold_gap}

\* C10: two consecutive Items of identical normalized text are in the same
\* segment when their timestamps differ by at most 1.5/sample_fps and in
\* different segments when they differ by more; Items of different
\* normalized text are never in the same segment.
C10_Adjacency ==
    pc = "segments"
        => \A k \in 1..Len(items) :
              /\ Cardinality(SegsOf(k)) = 1
              /\ k < Len(items)
                    => LET same == items[k].text_tc = items[k + 1].text_tc
                           near == (items[k + 1].t - items[k].t) * sample_fps <= 1500
                       IN  IF same /\ near
                           THEN SegsOf(k) = SegsOf(k + 1)
                           ELSE SegsOf(k) \cap SegsOf(k + 1) = {}

\* two Items of the same text exactly 1.5/sample_fps apart, in one segment
C10_Witness ==
    /\ pc = "segments"
    /\ \E k \in 1..(Len(items) - 1) :
          /\ items[k].text_tc = items[k + 1].text_tc
          /\ (items[k + 1].t - items[k].t) * sample_fps = 1500
          /\ SegsOf(k) = SegsOf(k + 1)
    /\ \E k \in 1..(Len(items) - 1) :
          /\ items[k].text_tc = items[k + 1].text_tc
          /\ (items[k + 1].t - items[k].t) * sample_fps > 1500
          /\ Len(segments) >= 2

\* C19: in build_items a readable frame whose merged text is empty adds no
\* Item and makes the previous text empty; and a frame with a non-empty
\* reading that meets an empty (or no) previous text adds an Item carrying
\* its own reading and conversion and makes that reading the previous text,
\* however close the reading is to the texts of the Items before it.
C19_EmptyResets ==
    [][(/\ pc = "ocr"
        /\ i < Len(frame_files)
        /\ i' = i + 1
        /\ frame_files[i + 1].img)
          => LET f == frame_files[i + 1]
             IN  /\ f.text = <<>>
                      => /\ items' = items
                         /\ prev_text_sc' = Some(<<>>)
                 /\ (f.text # <<>> /\ ~Truthy(prev_text_sc))
                      => /\ items' = Append(items, Item(FrameTime(i + 1), f.text,
                                                        convert(f.text), f.pos))
                         /\ prev_text_sc' = Some(f.text)]_vars

\* "a", an empty reading, then "ab" within the threshold of "a": the second
\* Item carries "ab"
C19_Witness ==
    /\ pc = "ocr"
    /\ i = 3
    /\ HasText(frame_files[1])
    /\ frame_files[2] = Reading(<<>>)
    /\ HasText(frame_files[3])
    /\ frame_files[3].text # frame_files[1].text
    /\ distance(frame_files[1].text, frame_files[3].text) * 100
          < change_threshold * Max2(Len(frame_files[1].text), Len(frame_files[3].text))
    /\ Len(items) = 2
    /\ items[2].text_sc = frame_files[3].text
    /\ prev_text_sc = Some(frame_files[3].text)

\* the frame whose reading is the text that last caused a change: the last
\* frame up to the n-th with a reading whose Item carries that reading
ItemOf(k) == CHOOSE it \in {items[n] : n \in 1..Len(items)} : it.t = FrameTime(k)

CausedChange(k) == HasText(frame_files[k]) /\ ItemOf(k).text_sc = frame_files[k].text

LastChange(n) ==
    CHOOSE k \in 1..n : /\ CausedChange(k)
                        /\ \A j \in (k + 1)..n : ~CausedChange(j)

\* C20: in build_items, a non-empty reading at normalized distance
\* d < change_threshold of a non-empty previous text adds an Item with the
\* previous text, its conversion, and the time and position of the current
\* frame, and leaves the previous text as it is; and the previous text a
\* reading is compared with is the reading that last caused a change.
C20_CarriesPrevious ==
    [][(/\ pc = "ocr"
        /\ i < Len(frame_files)
        /\ i' = i + 1
        /\ HasText(frame_files[i + 1])
        /\ Truthy(prev_text_sc))
          => LET f == frame_files[i + 1]
                 prev == prev_text_sc[1]
                 maxlen == Max2(Len(prev), Len(f.text))
             IN  /\ prev = frame_files[LastChange(i)].text
                 /\ distance(prev, f.text) * 100 < change_threshold * maxlen
                      => /\ items' = Append(items, Item(FrameTime(i + 1), prev,
                                                        convert(prev), f.pos))
                         /\ prev_text_sc' = prev_text_sc]_vars

\* "a", then "ab" at another place taken for noise, then "b": "b" is within
\* the threshold of "ab" but not of "a", and causes a change
C20_Witness ==
    /\ pc = "ocr"
    /\ i = 3
    /\ change_threshold = 100
    /\ frame_files[1] = Reading(<<"a">>)
    /\ frame_files[2] = Frame(TRUE, <<"a", "b">>, OtherPos)
    /\ frame_files[3] = Reading(<<"b">>)
    /\ Len(items) = 3
    /\ items[2] = Item(FrameTime(2), <<"a">>, convert(<<"a">>), OtherPos)
    /\ items[3].text_sc = <<"b">>
    /\ prev_text_sc = Some(<<"b">>)

\* the document of a run whose video gave no segment: the header alone
HeaderOnly == [PlayResX |-> play_res[1], PlayResY |-> play_res[2], lines |-> <<>>]

\* C11: when the extraction leaves no frame file, build_items has no frame
\* to loop over and returns no Items, items_to_segments and fill_gaps_upto
\* return the empty list without raising, the document write_ass writes has
\* the header and no Dialogue line, and the run returns without an error.
C11_ZeroFrames ==
    [][/\ (pc = "ocr_init" /\ frames_dir = Dir(<<>>) /\ pc' = "ocr")
            => (frame_files' = <<>> /\ i' = 0 /\ items' = <<>>)
       /\ (pc = "ocr" /\ frame_files = <<>>)
            => (items = <<>> /\ pc' = "fill" /\ segments' = <<>> /\ error' = "")
       /\ (pc = "fill" /\ frame_files = <<>>)
            => (pc' = "write" /\ segments' = <<>> /\ error' = "")
       /\ (pc = "write" /\ frame_files = <<>> /\ pc' = "done")
            => (out_file' = <<HeaderOnly>> /\ error' = "")]_vars

\* a run over no frame has returned, and its document is the header alone
C11_Witness ==
    /\ pc = "done"
    /\ frame_files = <<>>
    /\ progress[Len(progress)] = Call("overall", 100)
    /\ items = <<>>
    /\ segments = <<>>
    /\ out_file = <<HeaderOnly>>
    /\ error = ""

\* the run has returned or raised
Exited == pc \in {"done", "raised"}

\* C12 as stated: whenever process_video_to_ass has returned or raised, the
\* scratch frame directory is gone unless keep_frames is set.
C12_Original == (Exited /\ ~keep_frames) => frames_dir = NoDir

\* total of the run, known once the frames are extracted
RunTotal == IF frames_dir # NoDir THEN total(frames_dir[1]) ELSE total(frame_files)

\* C13 as stated: the fractions of all calls of the progress callback, in
\* call order, never decrease, lie in [0, 1], and end at 1.0 when the run
\* has returned.
C13_Original ==
    /\ \A k \in 1..Len(progress) : progress[k][2] \in 0..(100 * RunTotal)
    /\ \A k \in 1..(Len(progress) - 1) : progress[k][2] <= progress[k + 1][2]
    /\ pc = "done" => progress[Len(progress)][2] = 100 * RunTotal

\* C14 as stated: with sample_fps <= 0 the run fails with a parameter error
\* before it extracts or reads any frame: the scratch directory is not
\* touched, line 239 never divides by sample_fps, nothing is written and
\* the run does not return.
C14_Original ==
    sample_fps <= 0
        => /\ frames_dir = NoDir
           /\ i = 0
           /\ error # "ZeroDivisionError"
           /\ out_file = <<>>
           /\ pc # "done"

\* with sample_fps = 0 and a video that gives no frame the run returns
\* and has written a document
BadFpsWritten == sample_fps = 0 /\ pc = "done" /\ out_file # <<>>

\* with sample_fps = 0 and a frame to read, line 239 divides by zero
BadFpsDivides == sample_fps = 0 /\ pc = "raised" /\ error = "ZeroDivisionError"

\* with sample_fps < 0 and frames to read the run returns a document
\* whose Items had negative times
BadFpsNegativeTimes ==
    /\ sample_fps < 0
    /\ pc = "done"
    /\ \E n \in 1..Len(items) : items[n].t < 0

\* C17 as stated: the path of the output holds a document only when the
\* run has fully succeeded; a run that raised has left none.
C17_Original ==
    /\ out_file # <<>> => (pc = "done" /\ error = "")
    /\ pc = "raised" => out_file = <<>>

\* the pixels of a w x h frame inside the region (x, y, cw, ch)
InRegion(w, h, custom) ==
    {px \in (0..(w - 1)) \X (0..(h - 1)) :
        /\ custom[1] <= px[1] /\ px[1] < custom[1] + custom[3]
        /\ custom[2] <= px[2] /\ px[2] < custom[2] + custom[4]}

\* the top-left pixel of a crop that is not empty
TopLeft(img) == CHOOSE px \in img : \A q \in img : px[1] <= q[1] /\ px[2] <= q[2]

\* C15 as stated: for every frame size and region, negative x or y
\* included, roi_crop returns exactly the pixels of the frame inside the
\* region, and the offset it returns is the top-left pixel of that crop.
C15_Original ==
    pc = "cropped"
        => /\ ret[1].img = InRegion(arg.w, arg.h, arg.custom)
           /\ ret[1].img # {} => <<ret[1].x, ret[1].y>> = TopLeft(ret[1].img)

\* a region that starts left of the frame and reaches into it, for which
\* roi_crop returns pixels outside the region
CropWraps ==
    /\ pc = "cropped"
    /\ arg.custom[1] < 0
    /\ \E px \in ret[1].img : px \notin InRegion(arg.w, arg.h, arg.custom)

\* past the right and bottom edges roi_crop clamps as the claim says
CropClampsRightBottom ==
    (pc = "cropped" /\ arg.custom[1] >= 0 /\ arg.custom[2] >= 0)
        => /\ ret[1].img = InRegion(arg.w, arg.h, arg.custom)
           /\ ret[1].img # {} => <<ret[1].x, ret[1].y>> = TopLeft(ret[1].img)

\* a point of a box that line 203 can use: a list or tuple of two numbers
\* or more
WellFormedPoint(p) ==
    /\ is_list_or_tuple(p)
    /\ Len(p.elems) >= 2
    /\ p.elems[1].ty = "num"
    /\ p.elems[2].ty = "num"

\* an entry that conforms: [box of four points or more, (text, ...)] with a
\* text that is not blank
Conforming(line) ==
    /\ line_kept(line)
    /\ \A k \in 1..Len(line.elems[1].elems) : WellFormedPoint(line.elems[1].elems[k])

\* the entries of a result, none if it cannot be gone through
EntriesOf(ocr_result) ==
    IF ocr_result.ty = "none" \/ ~iterable(lines_of(ocr_result)) THEN <<>>
    ELSE py_iter(lines_of(ocr_result))

\* C16 as stated: pick_best_text_and_pos raises on no result; what it
\* returns is what it returns for the conforming entries alone, the others
\* being skipped one by one; and with no conforming entry it returns
\* ("", (0, 0)).
C16_Original ==
    pc = "picked"
        => LET conforming == SelectSeq(EntriesOf(arg.ocr_result), Conforming)
           IN  /\ ret[1].raised = ""
               /\ ret[1] = pick_best_text_and_pos(PyList(<<PyList(conforming)>>),
                                                  arg.x_off, arg.y_off)
               /\ conforming = <<>> => ret[1] = Returned(<<>>, <<0, 0>>)

\* a coordinate that is None or a word makes float() raise
PickRaisesOnPoints ==
    /\ pc = "picked"
    /\ arg.ocr_result.ty = "list"
    /\ ret[1].raised \in {"TypeError", "ValueError"}
    /\ \E k \in 1..Len(EntriesOf(arg.ocr_result)) :
          EntriesOf(arg.ocr_result)[k] \in MalformedPointLines

\* an entry whose box holds no point is not skipped: its text is returned
\* with the position of the other entry
PickKeepsTextOfMalformed ==
    /\ pc = "picked"
    /\ arg.ocr_result = PyList(<<PyList(<<Line(BoxA, PyStr(<<"a">>)),
                                         Line(PyList(<<PyNone, PyNone, PyNone, PyNone>>),
                                              PyStr(<<"c">>))>>)>>)
    /\ arg.x_off = 100
    /\ ret[1] = Returned(<<"a", " ", "c">>, <<120, 730>>)

\* results without an entry with malformed points, a number apart, are
\* handled as the claim says
PickToleratesTheRest ==
    (/\ pc = "picked"
     /\ arg.ocr_result # PyNum(0)
     /\ \A k \in 1..Len(EntriesOf(arg.ocr_result)) :
           EntriesOf(arg.ocr_result)[k] \notin MalformedPointLines)
        => LET conforming == SelectSeq(EntriesOf(arg.ocr_result), Conforming)
           IN  /\ ret[1].raised = ""
               /\ ret[1] = pick_best_text_and_pos(PyList(<<PyList(conforming)>>),
                                                  arg.x_off, arg.y_off)
               /\ conforming = <<>> => ret[1] = Returned(<<>>, <<0, 0>>)

\* the run has extracted its frames and has not returned yet
HoldsFrames(r) == runs[r].pc \in {"listdir", "ocr"}

\* C18 as stated: of two runs that overlap in time, each finds in its
\* scratch location exactly the frames it extracted, from the extraction
\* until it returns, and recognizes these frames and no others: none is
\* removed or overwritten by the other run, and none of the other run is
\* read.
C18_Original ==
    \A r \in RunIds :
        /\ HoldsFrames(r) => frames_dir = Dir(FramesOf(r))
        /\ \A k \in 1..Len(runs[r].read) : runs[r].read[k] = <<r, k>>
        /\ runs[r].pc = "done" => runs[r].read = FramesOf(r)
        /\ runs[r].pc # "raised"

\* run A has recognized a frame that run B extracted
ReadsForeignFrame ==
    /\ runs["A"].pc = "done"
    /\ \E k \in 1..Len(runs["A"].read) : runs["A"].read[k] = <<"B", 1>>

\* run A finds a frame of its own removed by run B
FindsFrameRemoved ==
    /\ runs["B"].pc = "done"
    /\ \E k \in 1..Len(runs["A"].read) : runs["A"].read[k] = Missing

\* one run after the other: each reads its own frames
OneAfterTheOther ==
    /\ runs["A"].pc = "done"
    /\ runs["B"].pc = "done"
    /\ runs["A"].read = FramesOf("A")
    /\ runs["B"].read = FramesOf("B")
    /\ ~keep_frames

\* the j-th smallest element of a set of numbers
Nth(S, j) == CHOOSE v \in S : Cardinality({u \in S : u < v}) = j - 1

\* v is the element at index floor(n/2) of the sorted list of the n numbers
\* cs[a..b]
IsMiddle(v, cs, a, b) ==
    LET n == b - a + 1
    IN  /\ \E k \in a..b : cs[k] = v
        /\ Cardinality({k \in a..b : cs[k] < v}) <= n \div 2
        /\ Cardinality({k \in a..b : cs[k] <= v}) > n \div 2

\* segment seg covers the Items a..b
Covers(seg, a, b) ==
    /\ seg.start = items[a].t
    /\ seg.end = items[b].t + hold_gap
    /\ \A k \in a..b : items[k].text_tc = seg.text
    /\ IsMiddle(seg.pos[1], [k \in 1..Len(items) |-> items[k].pos[1]], a, b)
    /\ IsMiddle(seg.pos[2], [k \in 1..Len(items) |-> items[k].pos[2]], a, b)

\* C21: for a non-empty ordered Item list the Items fall into contiguous
\* runs, one per segment and in the same order: a segment starts at the
\* time of its run's first Item, ends at the time of its last Item plus
\* hold_gap, has the normalized text of the Items of the run, and its
\* position is, for x and for y apart, the element at index floor(n/2) of
\* the sorted coordinates of the n Items of the run.
C21_SegmentsCoverRuns ==
    (pc = "segments" /\ items # <<>>)
        => \E cuts \in SUBSET (2..Len(items)) :
              LET firsts == {1} \cup cuts
                  first(j) == Nth(firsts, j)
                  last(j) == IF j = Cardinality(firsts) THEN Len(items)
                             ELSE Nth(firsts, j + 1) - 1
              IN  /\ Len(segments) = Cardinality(firsts)
                  /\ \A j \in 1..Len(segments) : Covers(segments[j], first(j), last(j))

\* a segment of two Items at different places: its position is made of the
\* larger x and the larger y, and is the place of neither Item
C21_Witness ==
    /\ pc = "segments"
    /\ Len(items) = 3
    /\ Len(segments) = 2
    /\ items[1].pos = <<100, 900>>
    /\ items[2].pos = <<200, 800>>
    /\ segments[1].start = items[1].t
    /\ segments[1].end = items[2].t + hold_gap
    /\ segments[1].pos = <<200, 900>>
    /\ segments[2].start = items[3].t

\* the list is sorted by start
SortedByStart(segs) == \A k \in 1..(Len(segs) - 1) : segs[k].start <= segs[k + 1].start

\* C22: on segments sorted by start, fill_gaps_upto(segments, max_gap)
\* returns as many segments in the same order with the same start, text and
\* position; with gap = next.start - cur.end of the segments given, the end
\* of a segment is the start of the next when gap < 0 or 0 < gap <= max_gap,
\* and is unchanged when gap = 0 or gap > max_gap; the end of the last
\* segment is unchanged.
C22_OnlyEndsChange ==
    (pc \in {"filled", "refilled"} /\ SortedByStart(arg[1]))
        => LET given == arg[1]
           IN  /\ Len(segments) = Len(given)
               /\ \A k \in 1..Len(given) :
                     /\ segments[k].start = given[k].start
                     /\ segments[k].text = given[k].text
                     /\ segments[k].pos = given[k].pos
                     /\ k = Len(given) => segments[k].end = given[k].end
                     /\ k < Len(given)
                          => LET gap == given[k + 1].start - given[k].end
                             IN  /\ (gap < 0 \/ (0 < gap /\ gap <= fill_gaps))
                                      => segments[k].end = given[k + 1].start
                                 /\ (gap = 0 \/ gap > fill_gaps)
                                      => segments[k].end = given[k].end

\* a gap longer than max_gap was left, and in another call a gap of
\* exactly max_gap was closed
C22_Witness ==
    /\ pc = "filled"
    /\ Len(arg[1]) = 2
    /\ SortedByStart(arg[1])
    /\ fill_gaps = 250
    /\ arg[1][2].start - arg[1][1].end \in {250, 500}
    /\ arg[1][1].text # arg[1][2].text
    /\ IF arg[1][2].start - arg[1][1].end = 250
       THEN segments[1].end = arg[1][2].start
       ELSE segments[1].end = arg[1][1].end /\ segments[1].end < segments[2].start

\* the indexes of the segments whose trimmed text is not empty
WithText(segs) == {k \in 1..Len(segs) : strip(segs[k].text) # <<>>}

\* C23: the document of write_ass has as many Dialogue lines as there are
\* segments whose trimmed text is not empty; the j-th line is the line of
\* the j-th such segment, so the lines are in the order of the segments
\* and a segment whose trimmed text is empty has no line.
C23_OneLinePerText ==
    pc = "written"
        => LET lines == out_file[1].lines
               with == WithText(segments)
           IN  /\ Len(lines) = Cardinality(with)
               /\ \A j \in 1..Len(lines) :
                     LET seg == segments[Nth(with, j)]
                     IN  /\ lines[j].text = esc(strip(seg.text))
                         /\ lines[j].text # <<>>
                         /\ lines[j].pos = <<Clamped(play_res[1], seg.pos[1]),
                                             Clamped(play_res[2], seg.pos[2])>>

\* a blank segment before another: one line, that of the other
C23_Witness ==
    /\ pc = "written"
    /\ Len(segments) = 2
    /\ segments[1].text = <<" ">>
    /\ segments[2].text = <<"{", "b", " ">>
    /\ Len(out_file[1].lines) = 1
    /\ out_file[1].lines[1].text = <<"\\", "{", "b">>

\* the recognition reported frame index k: progress_cb got 0.10 + 0.85 * (k + 1) / total
Reported(k) ==
    \E n \in 1..Len(progress) :
        progress[n] = Call("overall", 10 * total(frame_files) + 85 * (k + 1))

\* the stage announcements received so far
StageCalls == {n \in 1..Len(progress) : progress[n][1] = "stage"}

\* C24 as stated: when build_items has gone through N >= 1 frames, the
\* callback was invoked for frame index 0, for a frame of every 5
\* consecutive indexes and for the last frame with N/N, whatever the frames
\* gave (a text, no text, or an image that cannot be read); and each of the
\* stages begun so far was announced.
C24_Original ==
    (pc = "fill" /\ Len(frame_files) >= 1)
        => LET N == Len(frame_files)
           IN  /\ Reported(0)
               /\ Reported(N - 1)
               /\ \A w \in 0..(N - 5) : \E k \in w..(w + 4) : Reported(k)
               /\ Cardinality(StageCalls) = 2

\* with frames that can all be read the cadence is as stated: in the
\* scenario of 10 frames the indexes 0, 5 and 9 are reported
CadenceWhenReadable ==
    (pc = "fill" /\ \A k \in 1..Len(frame_files) : frame_files[k].img)
        => LET N == Len(frame_files)
           IN  /\ N >= 1 => (Reported(0) /\ Reported(N - 1))
               /\ \A w \in 0..(N - 5) : \E k \in w..(w + 4) : Reported(k)
               /\ Cardinality(StageCalls) = 2

\* a run has returned and the three stages were announced
ThreeStagesAnnounced == pc = "done" => Cardinality(StageCalls) = 3

\* the frames gone through so far that gave a text
TextFrames == {k \in 1..i : HasText(frame_files[k])}

\* C25: with sample_fps > 0, at every point of the loop of build_items the
\* Items are, in order, one for each frame so far that gave a text and none
\* for the others (no text, or unreadable); the timestamp of each is the
\* 0-based position of its frame in the frame list divided by sample_fps;
\* and the timestamps are strictly increasing.
C25_ItemTimes ==
    (pc \in {"ocr", "fill", "write", "done"} /\ sample_fps > 0)
        => /\ Len(items) = Cardinality(TextFrames)
           /\ \A n \in 1..Len(items) :
                 items[n].t * sample_fps = (Nth(TextFrames, n) - 1) * 1000
           /\ \A n \in 1..(Len(items) - 1) : items[n].t < items[n + 1].t

\* a text, an unreadable frame, a text: the second Item is that of the
\* third frame, at 2 / sample_fps
C25_Witness ==
    /\ pc = "fill"
    /\ sample_fps = 4
    /\ Len(frame_files) = 3
    /\ HasText(frame_files[1])
    /\ ~frame_files[2].img
    /\ HasText(frame_files[3])
    /\ Len(items) = 2
    /\ items[1].t = 0
    /\ items[2].t = 500

\* the buttons Select Video, Load Preview and Run are disabled
ControlsDisabled ==
    /\ gui.btn_select = "disabled"
    /\ gui.btn_preview = "disabled"
    /\ gui.btn_run = "disabled"

\* the handlers that have run for worker w
HandlersOf(w) == {n \in 1..Len(gui.handled) : gui.handled[n][2] = w}

\* a callback of worker w that ends its run is still scheduled
Pending(w) ==
    \E n \in 1..Len(gui.after) :
        gui.after[n][2] = w /\ gui.after[n][1] \in {"success", "error"}

\* the workers that are inside process_video_to_ass
InPipeline == {w \in WorkerIds : gui.workers[w] \in {"started", "reported"}}

\* C26 as stated: from the start of a worker until its handler has run the
\* three buttons are disabled; at most one worker runs the pipeline; and once the
\* callback that ends a run has been run by the UI thread, exactly one of
\* _on_ocr_success and _on_ocr_error has run for it and (no new run
\* having started) the buttons are enabled.
C26_Original ==
    /\ \A w \in WorkerIds :
          (gui.workers[w] # "unborn" /\ HandlersOf(w) = {}) => ControlsDisabled
    /\ Cardinality(InPipeline) <= 1
    /\ \A w \in WorkerIds :
          (gui.workers[w] = "ended" /\ ~Pending(w))
             => /\ Cardinality(HandlersOf(w)) = 1
                /\ (\A v \in WorkerIds : v > w => gui.workers[v] = "unborn")
                      => ~ControlsDisabled

\* what holds of C26: the buttons are disabled while a worker has no
\* handler, so the workers come one after the other, and no run has two
\* handlers
OneWorkerAtATime ==
    /\ \A w \in WorkerIds :
          (gui.workers[w] # "unborn" /\ HandlersOf(w) = {}) => ControlsDisabled
    /\ Cardinality(InPipeline) <= 1
    /\ \A w \in WorkerIds : Cardinality(HandlersOf(w)) <= 1

\* a run raised, its callback ran after the except clause was left: no
\* handler ran, nothing is scheduled and the buttons stay disabled
ControlsStuck ==
    /\ gui.workers[1] = "ended"
    /\ gui.after = <<>>
    /\ gui.handled = <<>>
    /\ ControlsDisabled

\* two runs, one after the other, the first raised and the second returned
TwoRunsHandled ==
    gui.handled = <<<<"_on_ocr_error", 1>>, <<"_on_ocr_success", 2>>>>

====
